---- MODULE Spec2Model ----
(***************************************************************************)
(* Model of src/App.tsx: the upload queue (uploadedFiles), the reactive    *)
(* captioning driver (useEffect + processFileWithAi), the rename settings  *)
(* and the archive build (downloadRenamedFiles).                           *)
(*                                                                         *)
(* Strings are sequences of one-character strings, so that trim,           *)
(* toLowerCase, the regular-expression replaces, substring, lastIndexOf    *)
(* and padStart are computed character by character.                       *)
(***************************************************************************)
EXTENDS Integers, Sequences, FiniteSets, TLC

VARIABLES
    uploadedFiles,   \* useState: the queue, a sequence of items
    settings,        \* useState: [startNumber, zeroPad]
    isProcessing,    \* useState: the "Packaging ZIP..." flag
    effectPending,   \* uploadedFiles was replaced and the useEffect has not run yet
                     \* (every setUploadedFiles makes a new array, so each one
                     \* schedules the effect again)
    inflight,        \* id -> number of processFileWithAi calls awaiting the remote call
    created,         \* number of preview handles made by URL.createObjectURL so far
    revoked,         \* preview handles released by URL.revokeObjectURL
    alert,           \* text of the last alert() shown ("" when none)
    written,         \* the zip.file(newName, file) calls of the last build, in order
    zip,             \* entries of the JSZip object of the last build
    zipPending,      \* builds awaiting zip.generateAsync
    downloads,       \* number of link.click() downloads triggered
    arg              \* input of the last directly applied operation (NoArg otherwise)

vars == <<uploadedFiles, settings, isProcessing, effectPending, inflight, created,
          revoked, alert, written, zip, zipPending, downloads, arg>>

----------------------------------------------------------------------------
(* Bounds of the model. *)

MaxFiles == 3        \* files ever enqueued in a behaviour of Spec
MaxBatch == 2        \* files per enqueue in Spec
MaxText == 3         \* SpecClean: length of the short response texts
NearCap == 2         \* SpecEnqueue starts with QueueCap - NearCap .. QueueCap items
MaxArchive == 3      \* SpecArchive: items in the queue
MaxBuilds == 1       \* archive builds in flight or downloaded in SpecArchive

----------------------------------------------------------------------------
(* Characters and strings. *)

Min(a, b) == IF a < b THEN a ELSE b
Max(a, b) == IF a > b THEN a ELSE b

LowerLetters ==
    {"a","b","c","d","e","f","g","h","i","j","k","l","m","n","o","p","q","r","s",
     "t","u","v","w","x","y","z"}
Digits == {"0","1","2","3","4","5","6","7","8","9"}

\* /\s/ : the whitespace characters of the model's alphabet
Whitespace == {" ", "\t", "\n"}

\* /[a-z0-9-]/
TitleChars == LowerLetters \cup Digits \cup {"-"}

\* String.prototype.toLowerCase, one character
LowerChar(c) ==
    CASE c = "A" -> "a" [] c = "B" -> "b" [] c = "S" -> "s" [] c = "Z" -> "z"
      [] OTHER -> c

toLowerCase(s) == [k \in 1..Len(s) |-> LowerChar(s[k])]

\* String.prototype.trim
TrimStart(s) ==
    LET solid == {k \in 1..Len(s) : s[k] \notin Whitespace}
    IN IF solid = {} THEN <<>>
       ELSE SubSeq(s, CHOOSE k \in solid : \A j \in solid : k <= j, Len(s))

TrimEnd(s) ==
    LET solid == {k \in 1..Len(s) : s[k] \notin Whitespace}
    IN IF solid = {} THEN <<>>
       ELSE SubSeq(s, 1, CHOOSE k \in solid : \A j \in solid : j <= k)

trim(s) == TrimEnd(TrimStart(s))

\* .replace(/\s+/g, '-') : every maximal whitespace run becomes one hyphen.
\* The string is replaced half by half; a run that spans the two halves has
\* already given its hyphen in the left half.
RECURSIVE ReplaceWhitespaceRuns(_)
ReplaceWhitespaceRuns(s) ==
    IF Len(s) = 0 THEN <<>>
    ELSE IF Len(s) = 1 THEN (IF s[1] \in Whitespace THEN <<"-">> ELSE s)
    ELSE LET h == Len(s) \div 2
             left == ReplaceWhitespaceRuns(SubSeq(s, 1, h))
             right == ReplaceWhitespaceRuns(SubSeq(s, h + 1, Len(s)))
         IN IF s[h] \in Whitespace /\ s[h + 1] \in Whitespace
            THEN left \o Tail(right)
            ELSE left \o right

\* .replace(/[^a-z0-9-]/g, '')
StripNonTitleChars(s) == SelectSeq(s, LAMBDA c : c \in TitleChars)

\* String.prototype.substring(start) and substring(start, end), 0-based
Clamp(i, n) == IF i < 0 THEN 0 ELSE Min(i, n)
substring(s, start, end) ==
    LET a == Clamp(start, Len(s))
        b == Clamp(end, Len(s))
    IN SubSeq(s, Min(a, b) + 1, Max(a, b))
substringFrom(s, start) == substring(s, start, Len(s))

\* String.prototype.lastIndexOf(c): 0-based index of the last c, -1 when none
lastIndexOf(s, c) ==
    LET hits == {k \in 1..Len(s) : s[k] = c}
    IN IF hits = {} THEN -1
       ELSE (CHOOSE k \in hits : \A j \in hits : j <= k) - 1

\* String.prototype.startsWith
startsWith(s, p) == Len(s) >= Len(p) /\ SubSeq(s, 1, Len(p)) = p

\* Number.prototype.toString() of an integer
RECURSIVE DigitsOf(_)
DigitsOf(n) ==
    LET d == <<"0","1","2","3","4","5","6","7","8","9">>[(n % 10) + 1]
    IN IF n < 10 THEN <<d>> ELSE DigitsOf(n \div 10) \o <<d>>

NumToString(n) == IF n < 0 THEN <<"-">> \o DigitsOf(0 - n) ELSE DigitsOf(n)

\* String.prototype.padStart(targetLength, '0')
padStart(s, targetLength) ==
    IF Len(s) >= targetLength THEN s
    ELSE [k \in 1..(targetLength - Len(s)) |-> "0"] \o s

\* (a slice that keeps the last n elements instead of the first n)
sliceLast(s, n) == SubSeq(s, Max(1, Len(s) - n + 1), Len(s))

\* Array.prototype.slice(0, n)
slice(s, n) == SubSeq(s, 1, Min(Len(s), n))

----------------------------------------------------------------------------
(* Program constants. *)

QueueCap == 200      \* .slice(0, 200)
TitleCap == 190      \* .substring(0, 190)

Placeholder ==       \* 'high-fidelity-image-description'
    <<"h","i","g","h","-","f","i","d","e","l","i","t","y","-","i","m","a","g","e",
      "-","d","e","s","c","r","i","p","t","i","o","n">>

ImagePrefix == <<"i","m","a","g","e","/">>           \* 'image/'

NoFilesMsg == "No files processed by AI yet."
ZipErrorMsg == "Error creating ZIP."

None == <<>>                 \* aiTitle: undefined
Some(t) == <<t>>             \* aiTitle: the string t

NoArg == [op |-> "none"]

----------------------------------------------------------------------------
(* Inputs of Spec. *)

JpegFile == [name |-> <<"p","h","o","t","o",".","j","p","g">>,
             type |-> <<"i","m","a","g","e","/","j","p","e","g">>]
TextFile == [name |-> <<"n","o","t","e","s",".","t","x","t">>,
             type |-> <<"t","e","x","t","/","p","l","a","i","n">>]

Files == {JpegFile, TextFile}

\* the values Math.random().toString(36).substr(2, 9) may return
Ids == {"id1", "id2"}

\* response.text of a resolved remote call (<<>>: no text)
RawTexts == { <<>>, <<" ","B","l","u","e"," ","\t","S","k","y","!">> }

SeqsUpTo(S, n) == UNION {[1..k -> S] : k \in 0..n}

----------------------------------------------------------------------------
(* Queue helpers. *)

First(hits) == IF hits = {} THEN 0 ELSE CHOOSE k \in hits : \A j \in hits : k <= j

\* uploadedFiles.find(f => f.status === 'idle'): its index, 0 when none
FindIdle(q) == First({k \in 1..Len(q) : q[k].status = "idle"})

\* uploadedFiles.find(f => f.id === id): its index, 0 when none
FindById(q, id) == First({k \in 1..Len(q) : q[k].id = id})

\* prev.map(f => f.id === id ? {...f, ...patch} : f)
MapStatus(q, id, st) ==
    [k \in 1..Len(q) |-> IF q[k].id = id THEN [q[k] EXCEPT !.status = st] ELSE q[k]]

MapDone(q, id, title) ==
    [k \in 1..Len(q) |->
        IF q[k].id = id THEN [q[k] EXCEPT !.aiTitle = Some(title), !.status = "done"]
        ELSE q[k]]

BagAdd(b, x) == [b EXCEPT ![x] = @ + 1]
BagRemove(b, x) == [b EXCEPT ![x] = @ - 1]

----------------------------------------------------------------------------
(* addFilesToQueue *)

NewItem(file, id, preview) ==
    [file |-> file, id |-> id, preview |-> preview, aiTitle |-> None, status |-> "idle"]

Enqueued(prev, files, ids, firstHandle) ==
    slice(prev \o [k \in 1..Len(files) |->
                      NewItem(files[k], ids[k], firstHandle + k)], QueueCap)

addFilesToQueue(files, ids) ==
    /\ uploadedFiles' = Enqueued(uploadedFiles, files, ids, created)
    /\ created' = created + Len(files)
    /\ effectPending' = TRUE
    /\ UNCHANGED <<settings, isProcessing, inflight, revoked, alert, written, zip,
                   zipPending, downloads>>

\* (a clear that releases the handles of the done items only)
clearFilesDoneOnly ==
    /\ revoked' = revoked \cup {uploadedFiles[k].preview :
                                    k \in {j \in 1..Len(uploadedFiles) :
                                               uploadedFiles[j].status = "done"}}
    /\ uploadedFiles' = <<>>
    /\ effectPending' = TRUE
    /\ UNCHANGED <<settings, isProcessing, inflight, created, alert, written, zip,
                   zipPending, downloads>>

(* clearFiles *)
clearFiles ==
    /\ revoked' = revoked \cup {uploadedFiles[k].preview : k \in 1..Len(uploadedFiles)}
    /\ uploadedFiles' = <<>>
    /\ effectPending' = TRUE
    /\ UNCHANGED <<settings, isProcessing, inflight, created, alert, written, zip,
                   zipPending, downloads>>

----------------------------------------------------------------------------
(* processFileWithAi and the useEffect that drives it *)

IsImage(file) == startsWith(file.type, ImagePrefix)

\* processFileWithAi(id) up to its first await. On the early return no state is
\* set, so the effect is not scheduled again.
processFileWithAi(id) ==
    LET k == FindById(uploadedFiles, id)
    IN IF k = 0 \/ ~IsImage(uploadedFiles[k].file)
       THEN /\ effectPending' = FALSE
            /\ UNCHANGED <<uploadedFiles, inflight>>
       ELSE /\ uploadedFiles' = MapStatus(uploadedFiles, id, "processing")
            /\ inflight' = BagAdd(inflight, id)
            /\ effectPending' = TRUE

\* useEffect(() => {...}, [uploadedFiles])
Effect ==
    /\ effectPending
    /\ LET k == FindIdle(uploadedFiles)
       IN IF k = 0
          THEN /\ effectPending' = FALSE
               /\ UNCHANGED <<uploadedFiles, inflight>>
          ELSE processFileWithAi(uploadedFiles[k].id)
    /\ UNCHANGED <<settings, isProcessing, created, revoked, alert, written, zip,
                   zipPending, downloads>>

\* (the same chain without the trim)
cleanTitleNoTrim(rawText) ==
    substring(StripNonTitleChars(ReplaceWhitespaceRuns(toLowerCase(rawText))),
              0, TitleCap)

cleanTitle(rawText) ==
    substring(StripNonTitleChars(ReplaceWhitespaceRuns(toLowerCase(trim(rawText)))),
              0, TitleCap)

\* (a response without text treated as a failure)
CaptionResolveEmptyThrows(id, text) ==
    /\ inflight[id] > 0
    /\ uploadedFiles' = IF text = <<>> THEN MapStatus(uploadedFiles, id, "error")
                        ELSE MapDone(uploadedFiles, id, cleanTitle(text))
    /\ inflight' = BagRemove(inflight, id)
    /\ effectPending' = TRUE
    /\ UNCHANGED <<settings, isProcessing, created, revoked, alert, written, zip,
                   zipPending, downloads>>

\* the remote call of processFileWithAi(id) resolves with response.text = text
CaptionResolve(id, text) ==
    /\ inflight[id] > 0
    /\ LET rawText == IF text = <<>> THEN Placeholder ELSE text
       IN uploadedFiles' = MapDone(uploadedFiles, id, cleanTitle(rawText))
    /\ inflight' = BagRemove(inflight, id)
    /\ effectPending' = TRUE
    /\ UNCHANGED <<settings, isProcessing, created, revoked, alert, written, zip,
                   zipPending, downloads>>

\* (a catch that puts the item back to idle, to be tried again)
CaptionRejectRetries(id) ==
    /\ inflight[id] > 0
    /\ uploadedFiles' = MapStatus(uploadedFiles, id, "idle")
    /\ inflight' = BagRemove(inflight, id)
    /\ effectPending' = TRUE
    /\ UNCHANGED <<settings, isProcessing, created, revoked, alert, written, zip,
                   zipPending, downloads>>

\* anything in the try block throws or rejects
CaptionReject(id) ==
    /\ inflight[id] > 0
    /\ uploadedFiles' = MapStatus(uploadedFiles, id, "error")
    /\ inflight' = BagRemove(inflight, id)
    /\ effectPending' = TRUE
    /\ UNCHANGED <<settings, isProcessing, created, revoked, alert, written, zip,
                   zipPending, downloads>>

----------------------------------------------------------------------------
(* The settings inputs *)

\* parseInt(string): <<>> is NaN, <<n>> the integer n
DigitValue(c) == CHOOSE v \in 0..9 : <<"0","1","2","3","4","5","6","7","8","9">>[v + 1] = c

RECURSIVE LeadingDigits(_)
LeadingDigits(s) ==
    IF s # <<>> /\ Head(s) \in Digits THEN <<Head(s)>> \o LeadingDigits(Tail(s)) ELSE <<>>

RECURSIVE DigitsValue(_)
DigitsValue(ds) ==
    IF ds = <<>> THEN 0
    ELSE 10 * DigitsValue(SubSeq(ds, 1, Len(ds) - 1)) + DigitValue(ds[Len(ds)])

NaN == <<>>

parseInt(str) ==
    LET s == TrimStart(str)
        neg == s # <<>> /\ Head(s) = "-"
        body == IF s # <<>> /\ Head(s) \in {"-", "+"} THEN Tail(s) ELSE s
        ds == LeadingDigits(body)
    IN IF ds = <<>> THEN NaN
       ELSE <<IF neg THEN 0 - DigitsValue(ds) ELSE DigitsValue(ds)>>

\* parseInt(e.target.value) || 1
StartNumberOf(value) ==
    LET parsed == parseInt(value)
    IN IF parsed = NaN \/ parsed[1] = 0 THEN 1 ELSE parsed[1]

\* onChange of the "Start From" input: setSettings({...settings, startNumber: ...})
SetStartNumber(s, value) == [s EXCEPT !.startNumber = StartNumberOf(value)]

\* onChange of the "Padding" select, whose options are 1, 2 and 3
SetZeroPad(s, value) == [s EXCEPT !.zeroPad = parseInt(value)[1]]

DefaultSettings == [startNumber |-> 1, zeroPad |-> 2]

----------------------------------------------------------------------------
(* downloadRenamedFiles *)

Finished(q) == SelectSeq(q, LAMBDA f : f.status = "done")

\* (the extension taken from the first '.' instead of the last)
FileExtFirstDot(name) ==
    LET hits == {k \in 1..Len(name) : name[k] = "."}
    IN substringFrom(name, IF hits = {} THEN -1
                           ELSE (CHOOSE k \in hits : \A j \in hits : k <= j) - 1)

FileExt(name) == substringFrom(name, lastIndexOf(name, "."))

\* (numbering that counts the items from 1 instead of 0)
SeqNumberFromOne(s, index) ==
    padStart(NumToString(s.startNumber + index + 1), s.zeroPad)

SeqNumber(s, index) == padStart(NumToString(s.startNumber + index), s.zeroPad)

TitleText(aiTitle) ==
    IF aiTitle = None THEN <<"u","n","d","e","f","i","n","e","d">> ELSE aiTitle[1]

\* the body of finished.forEach((item, index) => ...), index 0-based
Renamed(item, index, s) ==
    LET ext == FileExt(item.file.name)
        num == SeqNumber(s, index)
    IN [name |-> TitleText(item.aiTitle) \o <<"-">> \o num \o ext,
        num |-> num, ext |-> ext, data |-> item.file]

WrittenBy(finished, s) ==
    [k \in 1..Len(finished) |-> Renamed(finished[k], k - 1, s)]

\* zip.file(name, data): an entry of the same name is replaced
ZipFile(entries, name, data) ==
    IF \E k \in 1..Len(entries) : entries[k].name = name
    THEN [k \in 1..Len(entries) |->
             IF entries[k].name = name THEN [name |-> name, data |-> data]
             ELSE entries[k]]
    ELSE Append(entries, [name |-> name, data |-> data])

RECURSIVE ZipOf(_)
ZipOf(calls) ==
    IF calls = <<>> THEN <<>>
    ELSE LET last == calls[Len(calls)]
         IN ZipFile(ZipOf(SubSeq(calls, 1, Len(calls) - 1)), last.name, last.data)

\* the queue list: uploadedFiles.map((item, index) => ...) shows for a done item
\* `${item.aiTitle}-${num}${ext}`, index being the position in the whole queue
ListedName(item, index, s) ==
    TitleText(item.aiTitle) \o <<"-">> \o SeqNumber(s, index) \o FileExt(item.file.name)

ListedNames(q, s) ==
    [k \in 1..Len(q) |->
        IF q[k].status = "done" THEN Some(ListedName(q[k], k - 1, s)) ELSE None]

\* (the alert without the return: the build goes on)
DownloadEmptyNoReturn ==
    /\ Finished(uploadedFiles) = <<>>
    /\ alert' = NoFilesMsg
    /\ isProcessing' = TRUE
    /\ zipPending' = zipPending + 1
    /\ UNCHANGED <<uploadedFiles, settings, effectPending, inflight, created, revoked,
                   written, zip, downloads>>

\* finished.length === 0: alert and return
DownloadEmpty ==
    /\ Finished(uploadedFiles) = <<>>
    /\ alert' = NoFilesMsg
    /\ UNCHANGED <<uploadedFiles, settings, isProcessing, effectPending, inflight,
                   created, revoked, written, zip, zipPending, downloads>>

\* setIsProcessing(true), the forEach, and the call of zip.generateAsync
DownloadStart ==
    /\ Finished(uploadedFiles) # <<>>
    /\ zipPending + downloads < MaxBuilds
    /\ isProcessing' = TRUE
    /\ written' = WrittenBy(Finished(uploadedFiles), settings)
    /\ zip' = ZipOf(written')
    /\ zipPending' = zipPending + 1
    /\ UNCHANGED <<uploadedFiles, settings, effectPending, inflight, created, revoked,
                   alert, downloads>>

\* new JSZip() or zip.file throws: catch, finally
DownloadThrow ==
    /\ Finished(uploadedFiles) # <<>>
    /\ alert' = ZipErrorMsg
    /\ isProcessing' = FALSE
    /\ UNCHANGED <<uploadedFiles, settings, effectPending, inflight, created, revoked,
                   written, zip, zipPending, downloads>>

\* generateAsync resolved: the link is clicked; finally
ZipResolve ==
    /\ zipPending > 0
    /\ zipPending' = zipPending - 1
    /\ downloads' = downloads + 1
    /\ isProcessing' = FALSE
    /\ UNCHANGED <<uploadedFiles, settings, effectPending, inflight, created, revoked,
                   alert, written, zip>>

\* (the catch without the finally)
ZipRejectKeepsFlag ==
    /\ zipPending > 0
    /\ zipPending' = zipPending - 1
    /\ alert' = ZipErrorMsg
    /\ UNCHANGED <<uploadedFiles, settings, isProcessing, effectPending, inflight,
                   created, revoked, written, zip, downloads>>

\* generateAsync rejected: catch, finally
ZipReject ==
    /\ zipPending > 0
    /\ zipPending' = zipPending - 1
    /\ alert' = ZipErrorMsg
    /\ isProcessing' = FALSE
    /\ UNCHANGED <<uploadedFiles, settings, effectPending, inflight, created, revoked,
                   written, zip, downloads>>

----------------------------------------------------------------------------------------------------------------------------------------------------
(* The queue and its captioning driver *)

Init ==
    /\ uploadedFiles = <<>>
    /\ settings = DefaultSettings
    /\ isProcessing = FALSE
    /\ effectPending = TRUE
    /\ inflight = [i \in Ids |-> 0]
    /\ created = 0
    /\ revoked = {}
    /\ alert = ""
    /\ written = <<>>
    /\ zip = <<>>
    /\ zipPending = 0
    /\ downloads = 0
    /\ arg = NoArg

AddFiles ==
    \E files \in SeqsUpTo(Files, MaxBatch) :
        /\ created + Len(files) <= MaxFiles
        /\ \E ids \in [1..Len(files) -> Ids] : addFilesToQueue(files, ids)
        /\ UNCHANGED arg

Clear == clearFiles /\ UNCHANGED arg

RunEffect == Effect /\ UNCHANGED arg

Resolve == \E id \in Ids, text \in RawTexts : CaptionResolve(id, text) /\ UNCHANGED arg

Reject == \E id \in Ids : CaptionReject(id) /\ UNCHANGED arg

Next ==
    \/ AddFiles
    \/ Clear
    \/ RunEffect
    \/ Resolve
    \/ Reject

Spec == Init /\ [][Next]_vars

----------------------------------------------------------------------------
(* Properties of the queue, checked under Spec *)

SameItem(f, g) == f.preview = g.preview

StatusStep(a, b) ==
    \/ a = b
    \/ a = "idle" /\ b = "processing"
    \/ a = "processing" /\ b \in {"done", "error"}

\* C1: in every step, the status of every item that stays in the queue is
\* unchanged or moves idle -> processing or processing -> done | error; a done
\* or error item never changes status again.
C1_StatusOnlyMovesForward ==
    [][\A i \in DOMAIN uploadedFiles, j \in DOMAIN uploadedFiles' :
          SameItem(uploadedFiles[i], uploadedFiles'[j])
              => StatusStep(uploadedFiles[i].status, uploadedFiles'[j].status)]_vars

InFlightCalls == {i \in Ids : inflight[i] > 0}

\* C2: the driver never starts a remote call while another call is unresolved,
\* so at most one item is being captioned at a time.
C2_OneCaptionAtATime ==
    [][(\E i \in Ids : inflight'[i] > inflight[i]) => InFlightCalls = {}]_vars

\* C3: an item has a captionText (aiTitle) exactly when its status is done.
C3_CaptionIffDone ==
    \A k \in DOMAIN uploadedFiles :
        (uploadedFiles[k].aiTitle # None) <=> (uploadedFiles[k].status = "done")

\* C11: an item whose file is not an image is idle and without captionText in
\* every reachable state, and is not among the items an archive build takes.
C11_NonImageStaysIdle ==
    \A k \in DOMAIN uploadedFiles :
        ~IsImage(uploadedFiles[k].file) =>
            /\ uploadedFiles[k].status = "idle"
            /\ uploadedFiles[k].aiTitle = None
            /\ \A j \in DOMAIN Finished(uploadedFiles) :
                  Finished(uploadedFiles)[j].preview # uploadedFiles[k].preview

\* C14: in every reachable state no two queue items have the same id (so an id
\* given by an enqueue differs from the id of every item already in the queue).
C14_IdsAreUnique ==
    \A i, j \in DOMAIN uploadedFiles :
        i # j => uploadedFiles[i].id # uploadedFiles[j].id

\* C15: a clear of a queue that holds items releases the preview handle of
\* each of them, whatever its status, and no other handle; it leaves the queue
\* empty, shows no alert and changes neither the settings nor the calls in
\* flight.
C15_ClearReleasesAll ==
    [][uploadedFiles # <<>> /\ uploadedFiles' = <<>> =>
          /\ \A k \in DOMAIN uploadedFiles : uploadedFiles[k].preview \in revoked'
          /\ \A h \in revoked' \ revoked :
                \E k \in DOMAIN uploadedFiles : uploadedFiles[k].preview = h
          /\ revoked \subseteq revoked'
          /\ UNCHANGED <<settings, alert, isProcessing, inflight, created>>]_vars

\* a queue of at least two items, one of them with its call still unresolved,
\* has been cleared
C15_Witness ==
    /\ uploadedFiles = <<>>
    /\ Cardinality(revoked) >= 2
    /\ \E i \in Ids : inflight[i] > 0

\* C16: in every reachable state no idle item is followed later in the queue
\* by a processing, done or error item.
C16_NoIdleBeforeStarted ==
    \A i, j \in DOMAIN uploadedFiles :
        i < j /\ uploadedFiles[i].status = "idle" => uploadedFiles[j].status = "idle"

\* C19: a response to a call whose item a clear has removed changes no item of
\* the queue. (When every item that carries the call's id is idle, the item
\* the call was issued for is gone: the call set it to processing, no status
\* returns to idle, and only a clear removes items.)
C19_LateResponseChangesNothing ==
    [][\A i \in Ids :
          (/\ inflight'[i] < inflight[i]
           /\ \A k \in DOMAIN uploadedFiles :
                 uploadedFiles[k].id = i => uploadedFiles[k].status = "idle")
          => uploadedFiles' = uploadedFiles]_vars

----------------------------------------------------------------------------
(* The queue and its driver, with the last response recorded in arg *)

ResolveLogged ==
    \E id \in Ids, text \in RawTexts :
        /\ CaptionResolve(id, text)
        /\ arg' = [op |-> "resolve", id |-> id, text |-> text]

RejectLogged ==
    \E id \in Ids :
        /\ CaptionReject(id)
        /\ arg' = [op |-> "reject", id |-> id, text |-> <<>>]

NextResponses ==
    \/ AddFiles
    \/ Clear
    \/ RunEffect
    \/ ResolveLogged
    \/ RejectLogged

SpecResponses == Init /\ [][NextResponses]_vars

\* the step is the rejection, or the resolution, of a call issued for id i
RejectStep(i) ==
    inflight'[i] < inflight[i] /\ arg'.op = "reject" /\ arg'.id = i

ResolveStep(i) ==
    inflight'[i] < inflight[i] /\ arg'.op = "resolve" /\ arg'.id = i

\* the step issues a remote call for id i
CallStep(i) == inflight'[i] > inflight[i]

\* C12 as claimed: when the captioning step for an item fails (the call is
\* rejected, or it returns no text), the item gets status error and has no
\* captionText; no remote call is issued for an item that is in error.
C12_AsClaimed ==
    [][\A i \in Ids :
          /\ (RejectStep(i) \/ (ResolveStep(i) /\ arg'.text = <<>>)) =>
                \A k \in DOMAIN uploadedFiles' :
                    uploadedFiles'[k].id = i =>
                        /\ uploadedFiles'[k].status = "error"
                        /\ uploadedFiles'[k].aiTitle = None
          /\ CallStep(i) =>
                \A k \in DOMAIN uploadedFiles :
                    uploadedFiles[k].id = i => uploadedFiles[k].status # "error"]_vars

\* C12 amended: a rejected call gives status error to the items that carry its
\* id and leaves their captionText and every other item as they were; a call
\* that returns no text is no failure (its items become done, with a
\* captionText); an item in error never becomes idle again; and a remote call
\* is issued only for the id of the first idle item of the queue.
C12_RejectMarksError ==
    [][\A i \in Ids :
          /\ RejectStep(i) =>
                /\ Len(uploadedFiles') = Len(uploadedFiles)
                /\ \A k \in DOMAIN uploadedFiles :
                      IF uploadedFiles[k].id = i
                      THEN /\ uploadedFiles'[k].status = "error"
                           /\ uploadedFiles'[k].aiTitle = uploadedFiles[k].aiTitle
                           /\ uploadedFiles'[k].preview = uploadedFiles[k].preview
                      ELSE uploadedFiles'[k] = uploadedFiles[k]
          /\ (ResolveStep(i) /\ arg'.text = <<>>) =>
                \A k \in DOMAIN uploadedFiles' :
                    uploadedFiles'[k].id = i =>
                        /\ uploadedFiles'[k].status = "done"
                        /\ uploadedFiles'[k].aiTitle # None
          /\ \A k \in DOMAIN uploadedFiles \cap DOMAIN uploadedFiles' :
                (/\ uploadedFiles[k].status = "error"
                 /\ SameItem(uploadedFiles[k], uploadedFiles'[k]))
                => uploadedFiles'[k].status # "idle"
          /\ CallStep(i) =>
                /\ FindIdle(uploadedFiles) # 0
                /\ uploadedFiles[FindIdle(uploadedFiles)].id = i]_vars

\* a call was rejected, its item is in error without captionText, and the
\* driver has run since without issuing a call
C12_Witness ==
    /\ arg.op = "reject"
    /\ \E k \in DOMAIN uploadedFiles :
          /\ uploadedFiles[k].id = arg.id
          /\ uploadedFiles[k].status = "error"
          /\ uploadedFiles[k].aiTitle = None
    /\ ~effectPending
    /\ \A i \in Ids : inflight[i] = 0

----------------------------------------------------------------------------
(* Progress of the queue when it is not cleared *)

NextQueue ==
    \/ AddFiles
    \/ RunEffect
    \/ Resolve
    \/ Reject

\* React runs the effect after every commit that replaced uploadedFiles
SpecDriver == Init /\ [][NextQueue]_vars /\ WF_vars(RunEffect)

\* and every remote call that was issued is answered. A call in flight enables
\* Resolve and Reject alike and either step answers it, so weak fairness of
\* Reject forbids only the behaviours in which a call stays unanswered for ever.
SpecLive ==
    /\ Init
    /\ [][NextQueue]_vars
    /\ WF_vars(RunEffect)
    /\ WF_vars(Reject)

\* the positions of the item with preview handle h (none when it is not in the queue)
PositionsOf(h) == {k \in DOMAIN uploadedFiles : uploadedFiles[k].preview = h}

IsIdleImage(h) ==
    \E k \in PositionsOf(h) :
        IsImage(uploadedFiles[k].file) /\ uploadedFiles[k].status = "idle"

IsPastIdle(h) == \E k \in PositionsOf(h) : uploadedFiles[k].status # "idle"

IsProcessingItem(h) == \E k \in PositionsOf(h) : uploadedFiles[k].status = "processing"

IsImageItem(h) == \E k \in PositionsOf(h) : IsImage(uploadedFiles[k].file)

IsSettled(h) == \E k \in PositionsOf(h) : uploadedFiles[k].status \in {"done", "error"}

\* C17: an item stays processing as long as no call for its id is answered;
\* and when the call of an item is never answered, so that the item stays
\* processing for ever, every idle image item of the queue is still picked
\* up: it leaves idle.
C17_UnresolvedCallBlocksNothing ==
    /\ [][\A k \in DOMAIN uploadedFiles \cap DOMAIN uploadedFiles' :
             (/\ uploadedFiles[k].status = "processing"
              /\ SameItem(uploadedFiles[k], uploadedFiles'[k])
              /\ inflight'[uploadedFiles[k].id] >= inflight[uploadedFiles[k].id])
             => uploadedFiles'[k].status = "processing"]_vars
    /\ \A a \in 1..MaxFiles, h \in 1..MaxFiles :
          <>[]IsProcessingItem(a) => (IsIdleImage(h) ~> IsPastIdle(h))

\* C18: when every call is answered and the queue is not cleared, every image
\* item of the queue eventually is done or in error.
C18_EveryImageSettles ==
    \A h \in 1..MaxFiles : IsImageItem(h) ~> IsSettled(h)

----------------------------------------------------------------------------
(* addFilesToQueue applied to a queue at or just below the cap *)

\* a queue of m items as earlier enqueues and captions leave it; p shifts the
\* pattern of statuses and ids
StatusCycle == <<"idle", "processing", "done", "error">>
IdCycle == <<"id1", "id2">>

QueueOf(m, p) ==
    [k \in 1..m |->
        LET st == StatusCycle[((k + p) % 4) + 1]
        IN [file |-> JpegFile, id |-> IdCycle[((k + p) % 2) + 1], preview |-> k,
            aiTitle |-> IF st = "done" THEN Some(Placeholder) ELSE None,
            status |-> st]]

InitEnqueue ==
    /\ \E m \in {0} \cup ((QueueCap - NearCap)..QueueCap), p \in 0..3 :
          /\ uploadedFiles = QueueOf(m, p)
          /\ created = m
    /\ settings = DefaultSettings
    /\ isProcessing = FALSE
    /\ effectPending = TRUE
    /\ inflight = [i \in Ids |-> 0]
    /\ revoked = {}
    /\ alert = ""
    /\ written = <<>>
    /\ zip = <<>>
    /\ zipPending = 0
    /\ downloads = 0
    /\ arg = NoArg

EnqueueOnce ==
    /\ arg = NoArg
    /\ \E files \in SeqsUpTo(Files, MaxBatch) :
          /\ \E ids \in [1..Len(files) -> Ids] : addFilesToQueue(files, ids)
          /\ arg' = [op |-> "add", prev |-> uploadedFiles, files |-> files]

NextEnqueue == EnqueueOnce

SpecEnqueue == InitEnqueue /\ [][NextEnqueue]_vars

\* C4: enqueue of N files onto M items leaves min(M + N, 200) items: the M old
\* items unchanged and in order, then the first new files in input order, each
\* idle and without captionText; the queue never holds more than 200 items.
C4_EnqueueKeepsFirst200 ==
    /\ Len(uploadedFiles) <= 200
    /\ arg.op = "add" =>
          LET m == Len(arg.prev)
              n == Len(arg.files)
          IN /\ Len(uploadedFiles) = IF m + n > 200 THEN 200 ELSE m + n
             /\ \A k \in 1..m : uploadedFiles[k] = arg.prev[k]
             /\ \A k \in (m + 1)..Len(uploadedFiles) :
                   /\ uploadedFiles[k].file = arg.files[k - m]
                   /\ uploadedFiles[k].status = "idle"
                   /\ uploadedFiles[k].aiTitle = None

\* an enqueue that overflowed the cap and still took some of the new files
C4_Witness ==
    /\ arg.op = "add"
    /\ Len(arg.prev) < 200
    /\ Len(arg.prev) + Len(arg.files) > 200
    /\ Len(uploadedFiles) = 200
    /\ uploadedFiles[200].status = "idle"

\* C21: every preview handle that an enqueue created belongs to an item of the
\* queue or has been released, so that a clear leaves no handle unreleased.
C21_NoHandleLeaks ==
    \A h \in 1..created :
        \/ h \in revoked
        \/ \E k \in DOMAIN uploadedFiles : uploadedFiles[k].preview = h

----------------------------------------------------------------------------
(* The caption of one item, for every response text of a bounded set *)

TextAlphabet == {"B", "a", "7", "-", " ", "\n", "!"}

Repeat(c, n) == [k \in 1..n |-> c]

\* short texts of every shape
ShortTexts == SeqsUpTo(TextAlphabet, MaxText) \ {<<>>}

\* a response without text
NoText == {<<>>}

\* texts around the 190-character cut
LongTexts ==
    {pre \o Repeat("x", n) \o post :
        pre \in SeqsUpTo(TextAlphabet, 1),
        post \in SeqsUpTo(TextAlphabet, 1),
        n \in (TitleCap - 1)..(TitleCap + 1)}

InitClean ==
    /\ uploadedFiles = <<[NewItem(JpegFile, "id1", 1) EXCEPT !.status = "processing"]>>
    /\ inflight = [i \in Ids |-> IF i = "id1" THEN 1 ELSE 0]
    /\ created = 1
    /\ effectPending = TRUE
    /\ settings = DefaultSettings
    /\ isProcessing = FALSE
    /\ revoked = {}
    /\ alert = ""
    /\ written = <<>>
    /\ zip = <<>>
    /\ zipPending = 0
    /\ downloads = 0
    /\ arg = NoArg

CaptionOnce(texts) ==
    \E text \in texts :
        /\ CaptionResolve("id1", text)
        /\ arg' = [op |-> "caption", text |-> text]

NextClean ==
    \/ CaptionOnce(ShortTexts)
    \/ CaptionOnce(LongTexts)
    \/ CaptionOnce(NoText)

SpecClean == InitClean /\ [][NextClean]_vars

\* The sanitising stated position by position: position k of t contributes a
\* hyphen when it starts a whitespace run, nothing when it continues one, its
\* lower-cased character when that is in [a-z0-9-], and nothing otherwise.
Contribution(t, k) ==
    IF t[k] \in Whitespace
    THEN IF k > 1 /\ t[k - 1] \in Whitespace THEN "" ELSE "-"
    ELSE IF LowerChar(t[k]) \in TitleChars THEN LowerChar(t[k]) ELSE ""

Sanitised(t) ==
    LET kept == SelectSeq([k \in 1..Len(t) |-> Contribution(t, k)], LAMBDA c : c # "")
    IN [k \in 1..(IF Len(kept) > 190 THEN 190 ELSE Len(kept)) |-> kept[k]]

\* t without its leading and trailing whitespace
Trimmed(t) ==
    LET solid == {k \in 1..Len(t) : t[k] \notin Whitespace}
    IN IF solid = {} THEN <<>>
       ELSE [k \in 1..(1 + (CHOOSE j \in solid : \A i \in solid : i <= j)
                         - (CHOOSE j \in solid : \A i \in solid : j <= i)) |->
                t[k - 1 + (CHOOSE j \in solid : \A i \in solid : j <= i)]]

StoredTitle == uploadedFiles[1].aiTitle

\* C5 as claimed: the stored captionText is the returned text lower-cased, its
\* whitespace runs replaced by one hyphen each, stripped to [a-z0-9-] and cut
\* to 190 characters.
C5_AsClaimed ==
    arg.op = "caption" => StoredTitle = Some(Sanitised(arg.text))

\* C5 amended: the returned text (the placeholder when it is empty) is first
\* trimmed of leading and trailing whitespace and then sanitised as claimed;
\* the stored captionText has only characters of [a-z0-9-], no whitespace and
\* at most 190 characters.
C5_TrimmedThenSanitised ==
    arg.op = "caption" =>
        LET source == IF arg.text = <<>> THEN Placeholder ELSE arg.text
        IN /\ uploadedFiles[1].status = "done"
           /\ StoredTitle = Some(Sanitised(Trimmed(source)))
           /\ Len(StoredTitle[1]) <= 190
           /\ \A k \in 1..Len(StoredTitle[1]) :
                 /\ StoredTitle[1][k] \in LowerLetters \cup Digits \cup {"-"}
                 /\ StoredTitle[1][k] \notin Whitespace

\* a text with whitespace at its ends and more than 190 title characters has
\* been stored, cut to 190 characters
C5_Witness ==
    /\ arg.op = "caption"
    /\ Len(arg.text) > 190
    /\ arg.text[1] \in Whitespace
    /\ arg.text[Len(arg.text)] \in Whitespace
    /\ StoredTitle # None
    /\ Len(StoredTitle[1]) = 190

\* C13: a call that resolves without text leaves the item done, not in
\* error, with the captionText high-fidelity-image-description; a call that
\* resolves with a text leaves the item done with the caption made from that
\* text, so the placeholder is used in the first case only.
C13_EmptyTextGivesPlaceholder ==
    arg.op = "caption" =>
        /\ uploadedFiles[1].status = "done"
        /\ arg.text = <<>> =>
              StoredTitle =
                  Some(<<"h","i","g","h","-","f","i","d","e","l","i","t","y","-","i",
                         "m","a","g","e","-","d","e","s","c","r","i","p","t","i","o",
                         "n">>)
        /\ arg.text # <<>> =>
              /\ StoredTitle = Some(Sanitised(Trimmed(arg.text)))
              /\ StoredTitle # Some(Placeholder)

\* a call resolved without text and the item is done
C13_Witness ==
    /\ arg.op = "caption"
    /\ arg.text = <<>>
    /\ uploadedFiles[1].status = "done"
    /\ StoredTitle # None
    /\ Len(StoredTitle[1]) = 31

----------------------------------------------------------------------------
(* downloadRenamedFiles applied to a queue that captioning has left behind *)

SkyTitle ==      \* 'blue-sky-over-mountains'
    <<"b","l","u","e","-","s","k","y","-","o","v","e","r","-","m","o","u","n","t",
      "a","i","n","s">>

TwoDotJpeg == [name |-> <<"m","y",".","p","h","o","t","o",".","j","p","g">>,
               type |-> <<"i","m","a","g","e","/","j","p","e","g">>]

DoneItem(file, title) ==
    [NewItem(file, "id1", 0) EXCEPT !.aiTitle = Some(title), !.status = "done"]

\* the kinds of item of the queues SpecArchive starts from
ItemKinds ==
    { DoneItem(JpegFile, <<"a">>),
      DoneItem(JpegFile, <<"a", "-">>),
      DoneItem(TwoDotJpeg, SkyTitle),
      NewItem(TextFile, "id1", 0),
      [NewItem(JpegFile, "id1", 0) EXCEPT !.status = "processing"],
      [NewItem(JpegFile, "id1", 0) EXCEPT !.status = "error"] }

\* items of the given kinds, with the preview handles and ids of their positions
Numbered(kinds) ==
    [k \in 1..Len(kinds) |->
        [kinds[k] EXCEPT !.preview = k, !.id = IdCycle[(k % 2) + 1]]]

StartInputs == { <<>>, <<"0">>, <<"5">>, <<"9","9">>, <<"-","1">> }
PadInputs == { <<"1">>, <<"2">>, <<"3">> }

\* the settings the two inputs can leave behind
ReachableSettings ==
    {DefaultSettings}
    \cup {SetZeroPad(SetStartNumber(DefaultSettings, v), p) :
             v \in StartInputs, p \in PadInputs}

InitArchive ==
    /\ \E kinds \in SeqsUpTo(ItemKinds, MaxArchive) :
          /\ uploadedFiles = Numbered(kinds)
          /\ created = Len(kinds)
    /\ settings \in ReachableSettings
    /\ isProcessing = FALSE
    /\ effectPending = FALSE
    /\ inflight = [i \in Ids |-> 0]
    /\ revoked = {}
    /\ alert = ""
    /\ written = <<>>
    /\ zip = <<>>
    /\ zipPending = 0
    /\ downloads = 0
    /\ arg = NoArg

NextArchive ==
    \/ DownloadEmpty /\ UNCHANGED arg
    \/ DownloadStart /\ UNCHANGED arg
    \/ DownloadThrow /\ UNCHANGED arg
    \/ ZipResolve /\ UNCHANGED arg
    \/ ZipReject /\ UNCHANGED arg

SpecArchive == InitArchive /\ [][NextArchive]_vars

(* Properties of the archive build, checked under SpecArchive, where the   *)
(* queue and the settings stay as they were when the build was requested.  *)

DonePositions == {i \in DOMAIN uploadedFiles : uploadedFiles[i].status = "done"}

\* the position in the queue of the k-th done item, k counted from 1
DonePosition(k) ==
    CHOOSE i \in DonePositions : Cardinality({j \in DonePositions : j <= i}) = k

BuildAssembled == written # <<>>

\* d is the decimal numeral of the integer n: digits without a leading zero,
\* after a minus sign when n is negative
IsDecimalOf(d, n) ==
    LET body == IF d # <<>> /\ d[1] = "-" THEN Tail(d) ELSE d
    IN /\ body # <<>>
       /\ \A k \in 1..Len(body) : body[k] \in Digits
       /\ Len(body) > 1 => body[1] # "0"
       /\ (d[1] = "-") <=> (n < 0)
       /\ DigitsValue(body) = (IF n < 0 THEN 0 - n ELSE n)

\* num is the decimal numeral of n with just enough '0' in front of it to
\* reach width characters, and none when it is already that long
IsPaddedDecimalOf(num, n, width) ==
    \E z \in 0..Len(num) :
        /\ \A k \in 1..z : num[k] = "0"
        /\ IsDecimalOf(SubSeq(num, z + 1, Len(num)), n)
        /\ z = (IF Len(num) - z >= width THEN 0 ELSE width - (Len(num) - z))

\* C6: the k-th done item in queue order is numbered startNumber + k (k from
\* 0) with the settings of the build, in decimal, left-padded with '0' to
\* zeroPad characters and never shortened.
C6_SequenceNumbers ==
    BuildAssembled =>
        /\ Len(written) = Cardinality(DonePositions)
        /\ \A k \in 1..Len(written) :
              /\ written[k].data = uploadedFiles[DonePosition(k)].file
              /\ IsPaddedDecimalOf(written[k].num, settings.startNumber + (k - 1),
                                   settings.zeroPad)
              /\ Len(written[k].num) >= settings.zeroPad

\* two done items behind an item that is not done, numbered 99 and 100 with a
\* pad of 2 that differs from the default settings
C6_Witness ==
    /\ BuildAssembled
    /\ Len(written) >= 2
    /\ uploadedFiles[1].status # "done"
    /\ settings = [startNumber |-> 99, zeroPad |-> 2]
    /\ written[2].num = <<"1", "0", "0">>

\* ext is name from its last '.' on
IsExtensionOf(ext, name) ==
    /\ Len(ext) <= Len(name)
    /\ ext = SubSeq(name, Len(name) - Len(ext) + 1, Len(name))
    /\ ext # <<>>
    /\ ext[1] = "."
    /\ \A k \in 2..Len(ext) : ext[k] # "."

EndsWith(s, suffix) ==
    /\ Len(suffix) <= Len(s)
    /\ SubSeq(s, Len(s) - Len(suffix) + 1, Len(s)) = suffix

\* C7: every entry is named captionText "-" sequenceNumber extension, the
\* extension being the file name from its last '.' on; the JPEG captioned
\* blue-sky-over-mountains is archived with startNumber 5 and zeroPad 3 as
\* blue-sky-over-mountains-005.jpg.
C7_EntryNames ==
    BuildAssembled =>
        /\ \A k \in 1..Len(written) :
              LET item == uploadedFiles[DonePosition(k)]
              IN /\ IsExtensionOf(written[k].ext, item.file.name)
                 /\ IsPaddedDecimalOf(written[k].num, settings.startNumber + (k - 1),
                                      settings.zeroPad)
                 /\ written[k].name =
                        item.aiTitle[1] \o <<"-">> \o written[k].num \o written[k].ext
                 /\ EndsWith(written[k].name, written[k].ext)
        /\ (/\ Len(uploadedFiles) = 1
            /\ uploadedFiles[1].aiTitle = Some(SkyTitle)
            /\ settings = [startNumber |-> 5, zeroPad |-> 3])
           => written[1].name =
                  <<"b","l","u","e","-","s","k","y","-","o","v","e","r","-","m","o",
                    "u","n","t","a","i","n","s","-","0","0","5",".","j","p","g">>

\* the scenario of the claim has been built
C7_Witness ==
    /\ BuildAssembled
    /\ Len(uploadedFiles) = 1
    /\ uploadedFiles[1].aiTitle = Some(SkyTitle)
    /\ uploadedFiles[1].file.name = <<"m","y",".","p","h","o","t","o",".","j","p","g">>
    /\ settings = [startNumber |-> 5, zeroPad |-> 3]

\* C8: the archive holds one entry per done item and none for the others: as
\* many entries as done items, under pairwise distinct names.
C8_OneEntryPerDoneItem ==
    BuildAssembled =>
        /\ Len(zip) = Cardinality(DonePositions)
        /\ \A j, k \in 1..Len(written) : j # k => written[j].name # written[k].name
        /\ \A k \in 1..Len(zip) :
              \E i \in DonePositions : zip[k].data = uploadedFiles[i].file

\* C20: the name the queue list shows for a done item is the name under
\* which a build of the same queue with the same settings stores it.
C20_ListedNameIsArchiveName ==
    BuildAssembled =>
        \A k \in 1..Len(written) :
            ListedNames(uploadedFiles, settings)[DonePosition(k)] = Some(written[k].name)

NoDoneItem == DonePositions = {}

\* C9: a build requested while no item is done shows the alert and changes
\* nothing else: no archive, no download, no processing flag, the queue and
\* the settings as they were.
C9_EmptyBatch ==
    [][NoDoneItem =>
          /\ alert' = NoFilesMsg
          /\ UNCHANGED <<uploadedFiles, settings, isProcessing, written, zip,
                         zipPending, downloads, effectPending, inflight, created,
                         revoked>>
          /\ ~isProcessing' /\ zipPending' = 0 /\ downloads' = 0 /\ zip' = <<>>]_vars

\* a build was requested on a queue that holds items, none of them done
C9_Witness ==
    /\ NoDoneItem
    /\ uploadedFiles # <<>>
    /\ alert = NoFilesMsg

\* C10: a build that ends, ends with the processing flag cleared; it ends
\* either with one download and no alert or with the failure alert and no
\* download; a download happens only as the end of a pending assembly; the
\* flag is set only while an assembly is pending.
C10_BuildEnds ==
    [][/\ zipPending' < zipPending =>
             /\ ~isProcessing'
             /\ \/ downloads' = downloads + 1 /\ alert' = alert
                \/ downloads' = downloads /\ alert' = ZipErrorMsg
       /\ downloads' # downloads => zipPending > 0 /\ zipPending' = zipPending - 1
       /\ alert' = ZipErrorMsg /\ alert # ZipErrorMsg =>
             ~isProcessing' /\ downloads' = downloads
       /\ isProcessing' => zipPending' > 0]_vars

\* an assembly was started and failed: alert, flag cleared, nothing downloaded
C10_Witness ==
    /\ BuildAssembled
    /\ alert = ZipErrorMsg
    /\ zipPending = 0
    /\ ~isProcessing
    /\ downloads = 0

====
